---- MODULE Spec2Model ----
(***************************************************************************)
(* Verification model of the Bosch production-line analysis repository:    *)
(*   analysis/src/data/download.py    (download.main)                      *)
(*   analysis/src/data/preprocess.py  (preprocess.main)                    *)
(*   analysis/src/models/anomaly.py   (anomaly.main)                       *)
(*   backend/python/AnalysisAPI/app.py (the Flask AnalysisAPI)             *)
(* The scripts are sequential programs that communicate through the file   *)
(* system, so the state is the content of the data directories plus the    *)
(* position and locals of the script that is running.                      *)
(***************************************************************************)
EXTENDS Integers, Sequences, FiniteSets, TLC

VARIABLES
    raw,            \* data/raw: file name -> "absent" | "real" | "placeholder"
    dl_pc,          \* position of download.main
    dl_ret,         \* value returned by download.main ("none" until it returns)
    kaggleAttempted,\* download_with_kaggle_api was called
    prompted,       \* setup_kaggle_credentials asked for input()
    api_ok,         \* what download_with_kaggle_api returned ("none" if not called)
    reads,          \* data files the running analysis script has opened for reading
    writes,         \* interim, processed, model and result files it has written
    pp_pc,          \* position of preprocess.main
    data,           \* preprocess.main: data = load_data()
    source,         \* where load_data took data from: "none" | "synthetic" | "csv"
    processed_data, \* preprocess.main: processed_data = handle_missing_values(data)
    merged_df,      \* preprocess.main: merged_df = merge_datasets(processed_data)
    selected_df,    \* preprocess.main: the table handed to save_processed_data
    calls,          \* the steps preprocess.main has called, in order
    processed,      \* data/processed as anomaly.main finds it: file name -> content
    an_pc,          \* position of anomaly.main
    an_data,        \* anomaly.main: data = load_processed_data("train")
    an_src,         \* the file load_processed_data returned: "none" | "pkl" | "csv"
    svm_rows,       \* anomaly.main: len(X_sample)
    applied,        \* the techniques anomaly.main has fitted
    save_failed,    \* the techniques whose save_model caught an exception
    analysis_src_exists,    \* AnalysisAPI: ANALYSIS_SRC_DIR.exists()
    deps_importable,        \* the packages models.anomaly and data.preprocess import are installed
    models_dir,             \* analysis/models: whether it exists, and the model names
                            \* <name> of its anomaly_detection_<name>.pkl files
    api_pc,                 \* AnalysisAPI: "init" until the module has been loaded
    HAS_ADVANCED_ANALYSIS,  \* AnalysisAPI global
    advanced_models,        \* AnalysisAPI global: the keys of the dict
    response,               \* the last response the AnalysisAPI sent
    request,                \* the body of the request that response answers
    api_data,               \* AnalysisAPI global data: the stored readings
    anomalies,              \* AnalysisAPI global: the readings labelled -1
    model,                  \* AnalysisAPI global: the fitted IsolationForest
    answered,               \* for each GET endpoint over the stored readings,
                            \* the first response it gave
    results_tables,         \* for each method key, the rows and the rows flagged 1
                            \* of its results file, where that file exists
    dash_pc,                \* dashboard (web/app.py): "init" until main has loaded
    dash_data,              \* dashboard: app.config['data']['anomaly_results']
    dash_response           \* the last response the dashboard sent

dlVars == <<raw, dl_pc, dl_ret, kaggleAttempted, prompted, api_ok>>
ioVars == <<reads, writes>>
ppVars == <<pp_pc, data, source, processed_data, merged_df, selected_df, calls>>
anVars == <<processed, an_pc, an_data, an_src, svm_rows, applied, save_failed>>
dashVars == <<results_tables, dash_pc, dash_data, dash_response>>
apiEnv == <<analysis_src_exists, deps_importable, models_dir>>
apiGlobals == <<HAS_ADVANCED_ANALYSIS, advanced_models, api_data, anomalies, model>>
apiVars == <<apiEnv, api_pc, apiGlobals, response, request, answered>>

(***************************************************************************)
(* Bounds                                                                  *)
(***************************************************************************)
\* rows of the tables preprocess.main loads in the pipeline specification
LoadRows == 1
\* rows of the tables handle_missing_values is applied to on its own
ImputeRows == 3

(***************************************************************************)
(* download.py                                                             *)
(***************************************************************************)

\* expected_files of check_dataset_exists, placeholder_files of simulate_download
ExpectedFiles ==
    {"train_numeric.csv", "train_categorical.csv", "train_date.csv",
     "test_numeric.csv", "test_categorical.csv", "test_date.csv",
     "sample_submission.csv"}

FileStates == {"absent", "real", "placeholder"}

RawPath(f) == <<"raw", f>>

\* check_dataset_exists: all(... .exists() ...)
check_dataset_exists(dir) == \A f \in ExpectedFiles : dir[f] # "absent"

\* Files a Kaggle download or a zip extraction leaves in the directory: the
\* files in W are (over)written with dataset content.
WithDatasetFiles(dir, W) == [f \in ExpectedFiles |-> IF f \in W THEN "real" ELSE dir[f]]

\* simulate_download: a placeholder is written for every file that does not exist
simulate_download_bad(dir) ==
    [f \in ExpectedFiles |->
        IF dir[f] = "absent" /\ f # "sample_submission.csv" THEN "placeholder" ELSE dir[f]]

simulate_download(dir) ==
    [f \in ExpectedFiles |-> IF dir[f] = "absent" THEN "placeholder" ELSE dir[f]]

\* main, an early return skipped: the download is tried although the files exist
AlreadyDownloaded_bad(dir) == FALSE

\* main, line 194: if check_dataset_exists(): return True
AlreadyDownloaded(dir) == check_dataset_exists(dir)

\* download_with_kaggle_api (lines 56-121) on one environment:
\*   installed  the kaggle package imports, at once or after "pip install kaggle"
\*   creds      kaggle.json: "present" | "added" (after the prompt) | "missing"
\*              (still absent after the prompt) | "interrupt" (Ctrl+C at input())
\*   readable   the second open()/json.load of kaggle.json (lines 99-103) works
\*   result     exit code of the "kaggle datasets download" command
\*   W          the dataset files the command left in data/raw
\* The result: what it returns ("raised" for the uncaught KeyboardInterrupt),
\* whether it prompted, and the directory afterwards.
download_with_kaggle_api(dir, installed, creds, readable, result, W) ==
    IF ~installed THEN [ret |-> "False", prompted |-> FALSE, dir |-> dir, W |-> {}]
    ELSE IF creds = "interrupt" THEN [ret |-> "raised", prompted |-> TRUE, dir |-> dir, W |-> {}]
    ELSE IF creds = "missing" THEN [ret |-> "False", prompted |-> TRUE, dir |-> dir, W |-> {}]
    ELSE IF ~readable THEN [ret |-> "False", prompted |-> (creds = "added"), dir |-> dir, W |-> {}]
    ELSE [ret |-> IF result # 0 THEN "False" ELSE "True",
          prompted |-> (creds = "added"),
          dir |-> WithDatasetFiles(dir, W), W |-> W]

\* main, lines 189-196: ensure_dirs_exist(), then the early return
DlMain ==
    /\ dl_pc = "idle"
    /\ pp_pc = "idle"
    /\ IF AlreadyDownloaded(raw)
          THEN dl_pc' = "returned" /\ dl_ret' = "True"
          ELSE dl_pc' = "try_api" /\ dl_ret' = dl_ret
    /\ UNCHANGED <<raw, kaggleAttempted, prompted, api_ok, ioVars, ppVars>>
    /\ UNCHANGED <<anVars, apiVars, dashVars>>

\* main, line 199: if download_with_kaggle_api(): ...
DlKaggleApi ==
    /\ dl_pc = "try_api"
    /\ \E installed \in BOOLEAN, creds \in {"present", "added", "missing", "interrupt"},
          readable \in BOOLEAN, result \in {0, 1}, W \in SUBSET ExpectedFiles :
          LET r == download_with_kaggle_api(raw, installed, creds, readable, result, W) IN
          /\ r.W = W
          /\ kaggleAttempted' = TRUE
          /\ prompted' = r.prompted
          /\ api_ok' = r.ret
          /\ raw' = r.dir
          /\ dl_pc' = CASE r.ret = "True" -> "extract"
                         [] r.ret = "False" -> "guide"
                         [] OTHER -> "crashed"
    /\ UNCHANGED <<dl_ret, ioVars, ppVars>>
    /\ UNCHANGED <<anVars, apiVars, dashVars>>

\* main, lines 200-202: extract_zip_files(), then check_dataset_exists() again.
\* Z is what the *.zip files of data/raw hold (empty when there is none); a
\* corrupt zip raises BadZipFile, which main does not catch.
DlExtract ==
    /\ dl_pc = "extract"
    /\ \E Z \in SUBSET ExpectedFiles, badzip \in BOOLEAN :
          IF badzip
            THEN /\ Z = {}
                 /\ dl_pc' = "crashed"
                 /\ UNCHANGED <<raw, dl_ret>>
            ELSE /\ raw' = WithDatasetFiles(raw, Z)
                 /\ IF check_dataset_exists(raw')
                       THEN dl_pc' = "returned" /\ dl_ret' = "True"
                       ELSE dl_pc' = "guide" /\ dl_ret' = dl_ret
    /\ UNCHANGED <<kaggleAttempted, prompted, api_ok, ioVars, ppVars>>
    /\ UNCHANGED <<anVars, apiVars, dashVars>>

\* main, lines 204-213: guide_manual_download() only logs; simulate_download()
\* writes the placeholders; return True
DlSimulate ==
    /\ dl_pc = "guide"
    /\ raw' = simulate_download(raw)
    /\ dl_pc' = "returned"
    /\ dl_ret' = "True"
    /\ UNCHANGED <<kaggleAttempted, prompted, api_ok, ioVars, ppVars>>
    /\ UNCHANGED <<anVars, apiVars, dashVars>>

\* lines 215-216: main() has returned and the process exits; its locals are gone
DlExit ==
    /\ dl_pc = "returned"
    /\ dl_pc' = "exited" /\ dl_ret' = "none" /\ kaggleAttempted' = FALSE
    /\ prompted' = FALSE /\ api_ok' = "none"
    /\ UNCHANGED <<raw, ioVars, ppVars>>
    /\ UNCHANGED <<anVars, apiVars, dashVars>>

(***************************************************************************)
(* Tables (pandas DataFrames): a function from column names to columns,    *)
(* each column a sequence with one value per row.  A missing value is NaN  *)
(* in a numeric column and NaNc in a column of strings.                    *)
(***************************************************************************)
NaN == -1
NaNc == "NaN"

EmptyTable == [c \in {} |-> << >>]
NoData == [numeric |-> EmptyTable, categorical |-> EmptyTable, date |-> EmptyTable]

Columns(df) == DOMAIN df
Rows(df) == IF DOMAIN df = {} THEN 0 ELSE Len(df[CHOOSE c \in DOMAIN df : TRUE])
\* DataFrame.empty
Empty(df) == DOMAIN df = {} \/ Rows(df) = 0
\* df.drop(cols, axis=1), df[cols]
Drop(df, cols) == [c \in DOMAIN df \ cols |-> df[c]]
Take(df, cols) == [c \in cols |-> df[c]]
\* pd.concat([a, b], axis=1) of tables with disjoint columns
Concat(a, b) == [c \in DOMAIN a \cup DOMAIN b |-> IF c \in DOMAIN a THEN a[c] ELSE b[c]]

\* the columns whose dtype is numeric (select_dtypes(include=np.number))
NumericCols == {"Id", "Response", "L0_S0_F0"}
Categories == <<"Cat_0", "Cat_1">>
NumVals == {0, 2}

Ids(n) == [i \in 1..n |-> i]
Cells(n, vals) == [1..n -> vals]

\* the tables read_csv yields from real dataset files with n rows: train_numeric
\* (Id, one feature, Response unless the file has none), train_categorical, train_date
NumericTables(n) ==
    {[Id |-> Ids(n), L0_S0_F0 |-> f] : f \in Cells(n, NumVals \cup {NaN})}
    \cup {[Id |-> Ids(n), L0_S0_F0 |-> f, Response |-> r] :
             f \in Cells(n, NumVals \cup {NaN}), r \in Cells(n, {0, 1})}
CategoricalTables(n) ==
    {[Id |-> Ids(n), L0_S0_C0 |-> f] :
        f \in Cells(n, {Categories[k] : k \in 1..Len(Categories)} \cup {NaNc})}
DateTable(n) == [Id |-> Ids(n), L0_S0_D0 |-> [i \in 1..n |-> "2023-01-01 00:30:00"]]

\* what pd.read_csv makes of a placeholder file: the first comment line is the
\* header, the second the only row; there is no Id column
PlaceholderHeader(file) ==
    CASE file = "train_numeric.csv" -> "# This is a placeholder for train_numeric.csv"
      [] file = "train_categorical.csv" -> "# This is a placeholder for train_categorical.csv"
      [] OTHER -> "# This is a placeholder for train_date.csv"
PlaceholderTable(file) == [c \in {PlaceholderHeader(file)} |->
                              <<"# Replace with actual Bosch dataset file">>]

\* generate_synthetic_data (lines 88-177), n_samples scaled down to n: no value
\* is missing, and Response is present
SyntheticData(n) ==
    [numeric |-> [Id |-> Ids(n), L0_S0_F0 |-> [i \in 1..n |-> 2 * (i % 2)],
                  Response |-> [i \in 1..n |-> IF i = n THEN 1 ELSE 0]],
     categorical |-> [Id |-> Ids(n), L0_S0_C0 |-> [i \in 1..n |-> Categories[1 + (i % 2)]]],
     date |-> DateTable(n)]

(***************************************************************************)
(* preprocess.py: handle_missing_values                                    *)
(***************************************************************************)
\* the values of a column that are not missing, as the set of their positions
Present(col, missing) == {i \in DOMAIN col : col[i] # missing}

\* the k-th smallest of the present values of a numeric column
KthSmallest(col, k) ==
    CHOOSE v \in {col[i] : i \in Present(col, NaN)} :
        /\ Cardinality({i \in Present(col, NaN) : col[i] < v}) < k
        /\ Cardinality({i \in Present(col, NaN) : col[i] <= v}) >= k

\* SimpleImputer(strategy='median').fit: np.nanmedian of the column, the mean of
\* the two middle values when their number is even, NaN when none is present
Median(col) ==
    LET n == Cardinality(Present(col, NaN)) IN
    IF n = 0 THEN NaN
    ELSE IF n % 2 = 1 THEN KthSmallest(col, (n + 1) \div 2)
    ELSE (KthSmallest(col, n \div 2) + KthSmallest(col, n \div 2 + 1)) \div 2

Count(col, v) == Cardinality({i \in DOMAIN col : col[i] = v})

\* SimpleImputer(strategy='most_frequent').fit on an object column: the most
\* common present value, the smallest of them on a tie, NaN when none is present
MostFrequent(col) ==
    LET vals == {col[i] : i \in Present(col, NaNc)}
        best == {v \in vals : \A w \in vals : Count(col, w) <= Count(col, v)}
    IN  IF vals = {} THEN NaNc
        ELSE Categories[CHOOSE k \in 1..Len(Categories) :
                          /\ Categories[k] \in best
                          /\ \A j \in 1..(k - 1) : Categories[j] \notin best]

\* SimpleImputer.transform of one column with the fitted statistic
Fill(col, missing, stat) == [i \in DOMAIN col |-> IF col[i] = missing THEN stat ELSE col[i]]

\* SimpleImputer.fit_transform then pd.DataFrame(..., columns=features.columns):
\* fit raises ValueError on a table with no row or no column; transform drops
\* every column whose statistic is NaN (no value was present at fit), and the
\* DataFrame constructor raises ValueError when columns were dropped, because
\* the array no longer has one column per name.
Statistic(col, strategy) == IF strategy = "median" THEN Median(col) ELSE MostFrequent(col)

ImputeFrame(features, missing, strategy) ==
    LET kept == {c \in DOMAIN features : Statistic(features[c], strategy) # missing} IN
    IF Empty(features) THEN [status |-> "raised", value |-> EmptyTable]
    ELSE IF kept # DOMAIN features THEN [status |-> "raised", value |-> EmptyTable]
    ELSE [status |-> "ok",
          value |-> [c \in DOMAIN features |->
                       Fill(features[c], missing, Statistic(features[c], strategy))]]

\* the first column of a table without an Id column (such a table has one column)
IdCol(df) == IF "Id" \in Columns(df) THEN "Id" ELSE CHOOSE c \in Columns(df) : TRUE

\* handle_missing_values (lines 200-276).  The result: status "ok" and the
\* processed tables, or "raised"; written is the set of imputer pickles saved
\* before it returned or raised.
handle_missing_values(d) ==
    LET numeric_df == d.numeric
        id_col == IdCol(numeric_df)
        keep == {id_col} \cup ({"Response"} \cap Columns(numeric_df))
        num == ImputeFrame(Drop(numeric_df, keep), NaN, "median")
        categorical_df == d.categorical
        cat == ImputeFrame(Drop(categorical_df, {id_col}), NaNc, "most_frequent")
    IN  IF num.status # "ok"
          THEN [status |-> "raised", value |-> NoData, written |-> {}]
        ELSE IF id_col \notin Columns(categorical_df)   \* drop([id_col]): KeyError
          THEN [status |-> "raised", value |-> NoData, written |-> {"numeric_imputer.pkl"}]
        ELSE IF cat.status # "ok"
          THEN [status |-> "raised", value |-> NoData, written |-> {"numeric_imputer.pkl"}]
        ELSE [status |-> "ok",
              value |-> [numeric |-> Concat(Take(numeric_df, keep), num.value),
                         categorical |-> Concat(Take(categorical_df, {id_col}), cat.value),
                         date |-> IF ~Empty(d.date) THEN d.date ELSE EmptyTable],
              written |-> {"numeric_imputer.pkl", "categorical_imputer.pkl"}]

(***************************************************************************)
(* preprocess.py: merge_datasets, feature_selection                        *)
(***************************************************************************)
\* pd.merge(left, right, on=id_col, how='left') for a right table whose keys are
\* unique: every left row, with the right row of the same key or missing values
LeftMerge(left, right, id_col) ==
    [c \in Columns(left) \cup Columns(right) |->
        IF c \in Columns(left) THEN left[c]
        ELSE [i \in 1..Rows(left) |->
                IF \E j \in 1..Rows(right) : right[id_col][j] = left[id_col][i]
                  THEN right[c][CHOOSE j \in 1..Rows(right) : right[id_col][j] = left[id_col][i]]
                  ELSE NaNc]]

\* one merge step of merge_datasets: skipped for an absent or empty table,
\* KeyError when the table has no id_col column
MergeStep(acc, right, id_col) ==
    IF acc.status # "ok" \/ Empty(right) THEN acc
    ELSE IF id_col \notin Columns(right) THEN [status |-> "raised", value |-> EmptyTable]
    ELSE [status |-> "ok", value |-> LeftMerge(acc.value, right, id_col)]

\* merge_datasets (lines 278-299)
merge_datasets(pd) ==
    LET id_col == IdCol(pd.numeric) IN
    MergeStep(MergeStep([status |-> "ok", value |-> pd.numeric], pd.categorical, id_col),
              pd.date, id_col)

RECURSIVE SumTo(_, _)
SumTo(f, n) == IF n = 0 THEN 0 ELSE f[n] + SumTo(f, n - 1)

\* abs(corr(x, y)) > 0.01 (lines 321-326), in exact integer arithmetic: with
\* cov = n*Sxy - Sx*Sy and var likewise, corr^2 = cov^2 / (varx*vary); a column
\* of zero variance has correlation NaN and is not selected
Important(x, y) ==
    LET n == Len(x)
        cov == n * SumTo([i \in 1..n |-> x[i] * y[i]], n) - SumTo(x, n) * SumTo(y, n)
        varx == n * SumTo([i \in 1..n |-> x[i] * x[i]], n) - SumTo(x, n) * SumTo(x, n)
        vary == n * SumTo([i \in 1..n |-> y[i] * y[i]], n) - SumTo(y, n) * SumTo(y, n)
    IN  varx > 0 /\ vary > 0 /\ 10000 * cov * cov > varx * vary

\* feature_selection (lines 301-345)
feature_selection(df) ==
    LET id_col == IdCol(df) IN
    IF "Response" \notin Columns(df) THEN df
    ELSE LET numeric_features == (Columns(df) \ {id_col, "Response"}) \cap NumericCols
             important_features == {c \in numeric_features : Important(df[c], df["Response"])}
         IN  Take(df, {id_col, "Response"} \cup important_features)

(***************************************************************************)
(* preprocess.py: load_data and main                                       *)
(***************************************************************************)
RequiredFiles == {"train_numeric.csv", "train_categorical.csv", "train_date.csv"}

InterimPath(f) == <<"interim", f>>
ProcessedPath(f) == <<"processed", f>>

\* load_data, lines 56-60: sys.exit(1) when a required file does not exist
RequiredMissing_bad(dir) == dir["train_numeric.csv"] = "absent"

RequiredMissing(dir) == \E f \in RequiredFiles : dir[f] = "absent"

\* load_data, lines 63-67: only the first line of train_numeric.csv is looked at
PlaceholderDetected(dir) == dir["train_numeric.csv"] = "placeholder"

\* read_csv of one raw file
ReadCsv(dir, f, real) == IF dir[f] = "placeholder" THEN PlaceholderTable(f) ELSE real

\* main, lines 361-367: ensure_dirs_exist(), then data = load_data().  The
\* download script, if it was run, has exited.  A real file holds one of the
\* bounded tables, or is malformed, in which case read_csv raises and
\* load_data exits with status 1 (lines 84-86).
PpLoad ==
    /\ pp_pc = "idle"
    /\ dl_pc \in {"idle", "exited"}
    /\ calls' = <<"load_data">>
    /\ IF RequiredMissing(raw)
         THEN /\ pp_pc' = "exit1"
              /\ reads' = {} /\ writes' = {}
              /\ UNCHANGED <<data, source>>
         ELSE IF PlaceholderDetected(raw)
         THEN /\ pp_pc' = "analyze"
              /\ data' = SyntheticData(LoadRows)
              /\ source' = "synthetic"
              /\ reads' = {RawPath("train_numeric.csv")}
              /\ writes' = {InterimPath("synthetic_numeric.csv"),
                            InterimPath("synthetic_categorical.csv"),
                            InterimPath("synthetic_date.csv")}
         ELSE \E num \in NumericTables(LoadRows), cat \in CategoricalTables(LoadRows),
                 malformed \in BOOLEAN :
              /\ reads' = {RawPath(f) : f \in RequiredFiles}
              /\ writes' = {}
              /\ IF malformed
                   THEN /\ num = CHOOSE t \in NumericTables(LoadRows) : TRUE
                        /\ cat = CHOOSE t \in CategoricalTables(LoadRows) : TRUE
                        /\ pp_pc' = "exit1"
                        /\ UNCHANGED <<data, source>>
                   ELSE /\ pp_pc' = "analyze"
                        /\ source' = "csv"
                        /\ data' = [numeric |-> num,
                                    categorical |-> ReadCsv(raw, "train_categorical.csv", cat),
                                    date |-> ReadCsv(raw, "train_date.csv", DateTable(LoadRows))]
    /\ UNCHANGED <<dlVars, processed_data, merged_df, selected_df>>
    /\ UNCHANGED <<anVars, apiVars, dashVars>>

\* main, line 370: analyze_missing_values(data) (lines 179-198) writes one
\* report per table
PpAnalyze ==
    /\ pp_pc = "analyze"
    /\ calls' = Append(calls, "analyze_missing_values")
    /\ writes' = writes \cup {InterimPath("missing_values_numeric.csv"),
                               InterimPath("missing_values_categorical.csv"),
                               InterimPath("missing_values_date.csv")}
    /\ pp_pc' = "impute"
    /\ UNCHANGED <<dlVars, reads, data, source, processed_data, merged_df, selected_df>>
    /\ UNCHANGED <<anVars, apiVars, dashVars>>

\* main, line 373: processed_data = handle_missing_values(data)
PpImpute ==
    /\ pp_pc = "impute"
    /\ calls' = Append(calls, "handle_missing_values")
    /\ LET r == handle_missing_values(data) IN
         /\ writes' = writes \cup {InterimPath(f) : f \in r.written}
         /\ IF r.status = "ok"
              THEN pp_pc' = "merge" /\ processed_data' = r.value
              ELSE pp_pc' = "raised" /\ UNCHANGED processed_data
    /\ UNCHANGED <<dlVars, reads, data, source, merged_df, selected_df>>
    /\ UNCHANGED <<anVars, apiVars, dashVars>>

\* main, the branch of line 379 not taken: feature selection is always skipped
AfterMerge_bad(merged) == "save"

\* main, line 379: if "Response" in merged_df.columns: feature_selection first
AfterMerge(merged) == IF "Response" \in Columns(merged) THEN "select" ELSE "save"

\* main, lines 376-379: merged_df = merge_datasets(processed_data), then the
\* branch on "Response" in merged_df.columns
PpMerge ==
    /\ pp_pc = "merge"
    /\ calls' = Append(calls, "merge_datasets")
    /\ LET r == merge_datasets(processed_data) IN
         IF r.status = "ok"
           THEN /\ merged_df' = r.value
                /\ pp_pc' = AfterMerge(r.value)
                /\ selected_df' = IF AfterMerge(r.value) = "select" THEN selected_df ELSE r.value
           ELSE pp_pc' = "raised" /\ UNCHANGED <<merged_df, selected_df>>
    /\ UNCHANGED <<dlVars, ioVars, data, source, processed_data>>
    /\ UNCHANGED <<anVars, apiVars, dashVars>>

\* main, line 380: selected_df = feature_selection(merged_df)
PpSelect ==
    /\ pp_pc = "select"
    /\ calls' = Append(calls, "feature_selection")
    /\ selected_df' = feature_selection(merged_df)
    /\ writes' = writes \cup {InterimPath("feature_correlation.csv")}
    /\ pp_pc' = "save"
    /\ UNCHANGED <<dlVars, reads, data, source, processed_data, merged_df>>
    /\ UNCHANGED <<anVars, apiVars, dashVars>>

\* save_processed_data (lines 347-359): the CSV, then the pickle
SavedFiles(merged) ==
    IF "Response" \in Columns(merged)
      THEN {"train_processed.csv", "train_processed.pkl"}
      ELSE {"test_processed.csv", "test_processed.pkl"}

\* main, lines 381-385: save_processed_data(selected_df, "train") or
\* save_processed_data(merged_df, "test")
PpSave ==
    /\ pp_pc = "save"
    /\ calls' = Append(calls, "save_processed_data")
    /\ writes' = writes \cup {ProcessedPath(f) : f \in SavedFiles(merged_df)}
    /\ pp_pc' = "done"
    /\ UNCHANGED <<dlVars, reads, data, source, processed_data, merged_df, selected_df>>
    /\ UNCHANGED <<anVars, apiVars, dashVars>>

(***************************************************************************)
(* anomaly.py.  The estimators are scikit-learn's; what main does with     *)
(* them depends on the shape of the data only, so a processed file is      *)
(* modelled by whether it loads and by the shape of the table it holds.    *)
(* Method names are sequences of characters, so that the file names        *)
(* derived from them are computed as the code computes them.               *)
(***************************************************************************)
IsolationForest == <<"I", "s", "o", "l", "a", "t", "i", "o", "n", " ", "F", "o", "r", "e", "s", "t">>
LocalOutlierFactor == <<"L", "o", "c", "a", "l", " ", "O", "u", "t", "l", "i", "e", "r", " ", "F", "a", "c", "t", "o", "r">>
OneClassSVM == <<"O", "n", "e", "-", "C", "l", "a", "s", "s", " ", "S", "V", "M">>
EllipticEnvelope == <<"E", "l", "l", "i", "p", "t", "i", "c", " ", "E", "n", "v", "e", "l", "o", "p", "e">>

UpperCase == <<"A", "B", "C", "D", "E", "F", "G", "H", "I", "J", "K", "L", "M", "N", "O", "P", "Q", "R", "S", "T", "U", "V", "W", "X", "Y", "Z">>
LowerCase == <<"a", "b", "c", "d", "e", "f", "g", "h", "i", "j", "k", "l", "m", "n", "o", "p", "q", "r", "s", "t", "u", "v", "w", "x", "y", "z">>

\* str.lower() and str.replace(old, new) for single characters
Lower(s) == [i \in DOMAIN s |->
               IF \E k \in 1..Len(UpperCase) : UpperCase[k] = s[i]
                 THEN LowerCase[CHOOSE k \in 1..Len(UpperCase) : UpperCase[k] = s[i]]
                 ELSE s[i]]
Replace(s, old, new) == [i \in DOMAIN s |-> IF s[i] = old THEN new ELSE s[i]]

\* method_name.lower().replace(' ', '_')
MethodSuffix(method_name) == Replace(Lower(method_name), " ", "_")

ModelFile(method_name) == <<"models", "anomaly_detection_", MethodSuffix(method_name), ".pkl">>
ResultsFile(method_name) == <<"results", "anomaly_results_", MethodSuffix(method_name), ".csv">>
MetricsFile(method_name) == <<"results", "anomaly_metrics_", MethodSuffix(method_name), ".json">>
PlotFile(method_name) == <<"results/plots", "anomalies_", MethodSuffix(method_name), ".png">>

\* main, line 376: One-Class SVM is fitted on a sample above this many rows
SampleLimit == 10000
\* main, line 395: Elliptic Envelope is run up to this many features
MaxEllipticFeatures == 20
\* visualize_anomalies, line 255: PCA(n_components=2)
PcaComponents == 2

\* a processed file: absent, unreadable, or holding a table with that many rows
\* and numeric feature columns, with or without a Response column
Frame(st, r, k, resp) == [state |-> st, rows |-> r, features |-> k, response |-> resp]
NoFrame == Frame("absent", 0, 0, FALSE)
Corrupt == Frame("corrupt", 0, 0, FALSE)
Frames == {Frame("ok", r, k, resp) :
             r \in {SampleLimit, SampleLimit + 1},
             k \in {0, 1, PcaComponents, MaxEllipticFeatures, MaxEllipticFeatures + 1},
             resp \in BOOLEAN}

ProcessedFiles == {"train_processed.pkl", "train_processed.csv"}

\* load_processed_data with the CSV fallback left out: an unreadable pickle
\* ends the run
load_processed_data_bad(dir) ==
    LET pkl == dir["train_processed.pkl"]
        csv == dir["train_processed.csv"]
    IN  IF pkl.state = "ok" THEN [status |-> "returned", data |-> pkl, src |-> "pkl"]
        ELSE IF pkl.state = "absent" /\ csv.state = "ok"
          THEN [status |-> "returned", data |-> csv, src |-> "csv"]
        ELSE [status |-> "exit1", data |-> NoFrame, src |-> "none"]

\* load_processed_data (lines 60-87): the pickle if it exists and loads, else
\* the CSV if it exists and loads, else sys.exit(1)
load_processed_data(dir) ==
    LET pkl == dir["train_processed.pkl"]
        csv == dir["train_processed.csv"]
    IN  IF pkl.state = "ok" THEN [status |-> "returned", data |-> pkl, src |-> "pkl"]
        ELSE IF csv.state = "ok" THEN [status |-> "returned", data |-> csv, src |-> "csv"]
        ELSE [status |-> "exit1", data |-> NoFrame, src |-> "none"]

\* the files load_processed_data opens: the pickle if it exists, the CSV if it
\* exists and the pickle did not load
LoadReads(dir) ==
    {<<"processed", f>> : f \in {g \in ProcessedFiles :
        /\ dir[g].state # "absent"
        /\ g = "train_processed.csv" => dir["train_processed.pkl"].state # "ok"}}

\* main, lines 342-355: ensure_dirs_exist(), load_processed_data("train"),
\* prepare_data_for_anomaly_detection(data)
AnLoad ==
    /\ an_pc = "idle"
    /\ LET r == load_processed_data(processed) IN
         /\ an_pc' = IF r.status = "returned" THEN "isolation_forest" ELSE "exit1"
         /\ an_data' = r.data
         /\ an_src' = r.src
    /\ reads' = LoadReads(processed)
    /\ UNCHANGED <<processed, svm_rows, applied, save_failed, writes>>
    /\ UNCHANGED <<dlVars, ppVars, apiVars, dashVars>>

\* main with the One-Class SVM model not saved either
SavesModel_bad(method_name) == method_name \notin {LocalOutlierFactor, OneClassSVM}

\* main, lines 362, 370-371, 390, 400: save_model is called for every technique
\* but Local Outlier Factor ("so we don't save it")
SavesModel(method_name) == method_name # LocalOutlierFactor

\* One technique of main on a table of `rows` rows: detect_anomalies_* (fit
\* raises ValueError on a table without feature columns), evaluate, then
\* visualize_anomalies (PCA raises ValueError on fewer rows or features than
\* components), save_model (an exception while writing is caught and logged,
\* lines 303-308) and save_results (metrics only when there are labels).
RunMethod(method_name, rows, next_pc) ==
    IF an_data.features = 0
      THEN /\ an_pc' = "raised"
           /\ UNCHANGED <<applied, save_failed, writes>>
    ELSE IF an_data.features < PcaComponents \/ rows < PcaComponents
      THEN /\ an_pc' = "raised"
           /\ applied' = applied \cup {method_name}
           /\ UNCHANGED <<save_failed, writes>>
    ELSE \E saved \in BOOLEAN :
           /\ SavesModel(method_name) \/ saved
           /\ an_pc' = next_pc
           /\ applied' = applied \cup {method_name}
           /\ save_failed' = IF saved THEN save_failed ELSE save_failed \cup {method_name}
           /\ writes' = writes
                 \cup {PlotFile(method_name), ResultsFile(method_name)}
                 \cup (IF SavesModel(method_name) /\ saved THEN {ModelFile(method_name)} ELSE {})
                 \cup (IF an_data.response THEN {MetricsFile(method_name)} ELSE {})

\* main, lines 357-363
AnIsolationForest ==
    /\ an_pc = "isolation_forest"
    /\ RunMethod(IsolationForest, an_data.rows, "lof")
    /\ UNCHANGED <<processed, an_data, an_src, svm_rows, reads>>
    /\ UNCHANGED <<dlVars, ppVars, apiVars, dashVars>>

\* main, lines 365-372
AnLocalOutlierFactor ==
    /\ an_pc = "lof"
    /\ RunMethod(LocalOutlierFactor, an_data.rows, "ocsvm")
    /\ UNCHANGED <<processed, an_data, an_src, svm_rows, reads>>
    /\ UNCHANGED <<dlVars, ppVars, apiVars, dashVars>>

\* main, lines 374-391: a sample of SampleLimit rows when the table has more
AnOneClassSVM ==
    /\ an_pc = "ocsvm"
    /\ svm_rows' = IF an_data.rows > SampleLimit THEN SampleLimit ELSE an_data.rows
    /\ RunMethod(OneClassSVM, svm_rows', "elliptic")
    /\ UNCHANGED <<processed, an_data, an_src, reads>>
    /\ UNCHANGED <<dlVars, ppVars, apiVars, dashVars>>

\* main, lines 393-405
AnEllipticEnvelope ==
    /\ an_pc = "elliptic"
    /\ IF an_data.features <= MaxEllipticFeatures
         THEN RunMethod(EllipticEnvelope, an_data.rows, "done")
         ELSE an_pc' = "done" /\ UNCHANGED <<applied, save_failed, writes>>
    /\ UNCHANGED <<processed, an_data, an_src, svm_rows, reads>>
    /\ UNCHANGED <<dlVars, ppVars, apiVars, dashVars>>

NoResponse == [endpoint |-> "none", code |-> 0, body |-> [error |-> "none"]]
NoRequest == [json |-> FALSE, has_model |-> FALSE, model |-> << >>]
NoModel == [fitted_on |-> 0, contamination |-> 0, random_state |-> 0]
StoredEndpoints == {"/api/summary", "/api/anomalies", "/api/latest-data"}

\* the module has not been loaded
ApiNotLoaded ==
    /\ api_pc = "init" /\ HAS_ADVANCED_ANALYSIS = FALSE /\ advanced_models = {}
    /\ response = NoResponse /\ request = NoRequest
    /\ api_data = << >> /\ anomalies = << >> /\ model = NoModel
    /\ answered = [e \in StoredEndpoints |-> NoResponse]

\* the AnalysisAPI is not run
ApiOff ==
    /\ analysis_src_exists = TRUE /\ deps_importable = TRUE
    /\ models_dir = [exists |-> FALSE, names |-> {}]
    /\ ApiNotLoaded

\* load_data_and_results with the One-Class SVM key spelled with underscores
DashboardMethods_bad ==
    {<<"i", "s", "o", "l", "a", "t", "i", "o", "n", "_", "f", "o", "r", "e", "s", "t">>,
     <<"l", "o", "c", "a", "l", "_", "o", "u", "t", "l", "i", "e", "r", "_",
       "f", "a", "c", "t", "o", "r">>,
     <<"o", "n", "e", "_", "c", "l", "a", "s", "s", "_", "s", "v", "m">>,
     <<"e", "l", "l", "i", "p", "t", "i", "c", "_", "e", "n", "v", "e", "l", "o", "p", "e">>}

\* web/app.py, line 85: methods
DashboardMethods ==
    {<<"i", "s", "o", "l", "a", "t", "i", "o", "n", "_", "f", "o", "r", "e", "s", "t">>,
     <<"l", "o", "c", "a", "l", "_", "o", "u", "t", "l", "i", "e", "r", "_",
       "f", "a", "c", "t", "o", "r">>,
     <<"o", "n", "e", "-", "c", "l", "a", "s", "s", "_", "s", "v", "m">>,
     <<"e", "l", "l", "i", "p", "t", "i", "c", "_", "e", "n", "v", "e", "l", "o", "p", "e">>}

NoMetrics == [loaded |-> FALSE, keys |-> {}]
NoLoaded == [m \in {} |-> [rows |-> 0, flagged |-> 0, metrics |-> NoMetrics]]

\* the dashboard is not run; the results files have one row, not flagged
DashNotLoaded ==
    /\ dash_pc = "init" /\ dash_data = NoLoaded /\ dash_response = NoResponse
DashOff ==
    /\ results_tables = [m \in DashboardMethods |-> [rows |-> 1, flagged |-> 0]]
    /\ DashNotLoaded

\* no script is running
DlIdle ==
    /\ dl_pc = "idle" /\ dl_ret = "none" /\ kaggleAttempted = FALSE
    /\ prompted = FALSE /\ api_ok = "none"
PpIdle ==
    /\ pp_pc = "idle" /\ data = NoData /\ source = "none"
    /\ processed_data = NoData /\ merged_df = EmptyTable /\ selected_df = EmptyTable
    /\ calls = << >>
AnIdle ==
    /\ an_pc = "idle" /\ an_data = NoFrame /\ an_src = "none" /\ svm_rows = 0
    /\ applied = {} /\ save_failed = {}

InitAnomaly ==
    /\ raw = [f \in ExpectedFiles |-> "real"]
    /\ DlIdle
    /\ DashOff
    /\ reads = {} /\ writes = {}
    /\ PpIdle
    /\ ApiOff
    /\ processed \in [ProcessedFiles -> Frames \cup {NoFrame, Corrupt}]
    /\ AnIdle

NextAnomaly ==
    \/ AnLoad
    \/ AnIsolationForest
    \/ AnLocalOutlierFactor
    \/ AnOneClassSVM
    \/ AnEllipticEnvelope

(***************************************************************************)
(* backend/python/AnalysisAPI/app.py: what loading the module sets up, and *)
(* the endpoints that report on or use the advanced analysis.              *)
(***************************************************************************)
\* the names that analysis/src/models/anomaly.py binds at module level
AnomalyModuleNames ==
    {"os", "sys", "logging", "pickle", "Path", "pd", "np", "plt", "sns",
     "IsolationForest", "LocalOutlierFactor", "OneClassSVM", "EllipticEnvelope",
     "confusion_matrix", "classification_report", "PCA", "tqdm", "logger",
     "CURRENT_DIR", "ROOT_DIR", "DATA_DIR", "PROCESSED_DATA_DIR", "MODELS_DIR",
     "RESULTS_DIR", "PLOTS_DIR",
     "ensure_dirs_exist", "load_processed_data", "prepare_data_for_anomaly_detection",
     "detect_anomalies_isolation_forest", "detect_anomalies_lof",
     "detect_anomalies_ocsvm", "detect_anomalies_elliptic_envelope",
     "evaluate_anomaly_detection", "visualize_anomalies", "save_model",
     "save_results", "main"}

\* the names that analysis/src/data/preprocess.py binds at module level
PreprocessModuleNames ==
    {"os", "sys", "logging", "pd", "np", "Path", "SimpleImputer", "tqdm", "logger",
     "CURRENT_DIR", "ROOT_DIR", "DATA_DIR", "RAW_DATA_DIR", "INTERIM_DATA_DIR",
     "PROCESSED_DATA_DIR",
     "ensure_dirs_exist", "load_data", "generate_synthetic_data",
     "analyze_missing_values", "handle_missing_values", "merge_datasets",
     "feature_selection", "save_processed_data", "main"}

\* from <module> import <names>: ImportError when the module's own imports
\* fail or when it does not bind one of the names
FromImport(module_names, names, deps) == deps /\ names \subseteq module_names

\* lines 29-45: the value HAS_ADVANCED_ANALYSIS gets
ImportAdvancedAnalysis(src_exists, deps) ==
    IF src_exists
      THEN /\ FromImport(AnomalyModuleNames, {"load_model", "predict_anomaly"}, deps)
           /\ FromImport(PreprocessModuleNames, {"generate_synthetic_data"}, deps)
      ELSE FALSE

\* the names under which anomaly.main saves models
SavedModelNames == {MethodSuffix(m) : m \in {IsolationForest, OneClassSVM, EllipticEnvelope}}

ModelsDirs ==
    {[exists |-> FALSE, names |-> {}]}
        \cup {[exists |-> TRUE, names |-> N] : N \in SUBSET SavedModelNames}

\* The stored readings. The module generates 1000 of them; the model keeps
\* up to MaxReadings, on either side of the two limits of the endpoints.
MaxReadings == 52
\* get_anomalies, line 121: head(10); get_latest_data, line 183: tail(50)
AnomalyLimit == 10
LatestLimit == 50
ReadingCounts == {AnomalyLimit - 2, LatestLimit, MaxReadings}

FeatureNames == <<"temperature", "pressure", "speed", "vibration">>
\* the means of the normal and of the inserted readings (lines 66-69, 73-76);
\* predict_anomaly's normal_values (line 160) are the former
NormalValues == <<50, 100, 75, 25>>
InsertedValues == <<70, 140, 40, 40>>

\* generate_dummy_data (lines 63-86): n readings, one per hour, those at the
\* indices `inserted` drawn around InsertedValues and the others around
\* NormalValues; every reading takes the mean of its distribution
generate_dummy_data(n, inserted) ==
    [i \in 1..n |->
        LET v == IF i \in inserted THEN InsertedValues ELSE NormalValues
        IN  [temperature |-> v[1], pressure |-> v[2], speed |-> v[3],
             vibration |-> v[4], timestamp |-> i]]

\* The decision_function values of the fitted model over the stored readings
\* are not computed: they are one of the sequences ((a * i) % ScoreModulus) - c,
\* which have ties and from no to many negative values.
ScoreModulus == 7
MaxOffset == 3
ScoreSteps == {1, 3}
Scores(n, a, c) == [i \in 1..n |-> ((a * i) % ScoreModulus) - c]

\* IsolationForest.predict: -1 where decision_function is negative, else 1
Predict(score) == IF score < 0 THEN -1 ELSE 1

\* lines 94-95: data['anomaly'], data['anomaly_score']
WithPredictions(d, scores) ==
    [i \in DOMAIN d |->
        [temperature |-> d[i].temperature, pressure |-> d[i].pressure,
         speed |-> d[i].speed, vibration |-> d[i].vibration,
         timestamp |-> d[i].timestamp,
         anomaly |-> Predict(scores[i]), anomaly_score |-> scores[i]]]

IsAnomaly(row) == row.anomaly = -1

\* lines 88-95: the stored readings with the model's predictions
StartupData(n, a, c) ==
    WithPredictions(generate_dummy_data(n, {i \in 1..n : Scores(n, a, c)[i] < -1}),
                    Scores(n, a, c))

\* lines 90-91: IsolationForest(contamination=0.05, random_state=42).fit
FittedModel(n) == [fitted_on |-> n, contamination |-> 5, random_state |-> 42]

\* lines 29-60: the import block, then the loading of the saved models (a
\* load_model that raises ends the loop and keeps what was loaded before it);
\* lines 88-96: the readings, the model fitted on them, its predictions and
\* the anomalous readings
ApiStartup ==
    /\ api_pc = "init"
    /\ HAS_ADVANCED_ANALYSIS' = ImportAdvancedAnalysis(analysis_src_exists, deps_importable)
    /\ IF HAS_ADVANCED_ANALYSIS' /\ models_dir.exists
         THEN \E loaded \in SUBSET models_dir.names : advanced_models' = loaded
         ELSE advanced_models' = {}
    /\ \E n \in ReadingCounts, a \in ScoreSteps, c \in 0..MaxOffset :
          /\ api_data' = StartupData(n, a, c)
          /\ model' = FittedModel(n)
    /\ anomalies' = SelectSeq(api_data', IsAnomaly)
    /\ api_pc' = "serving"
    /\ UNCHANGED <<apiEnv, response, request, answered>>
    /\ UNCHANGED <<dlVars, ioVars, ppVars, anVars, dashVars>>

\* GET /api/health
health_check_bad(has, models) ==
    [status |-> "ok",
     advanced_analysis_available |-> TRUE,
     advanced_models |-> IF has THEN models ELSE {}]
health_check(has, models) ==
    [status |-> "ok",
     advanced_analysis_available |-> has,
     advanced_models |-> IF has THEN models ELSE {}]

ApiHealth ==
    /\ api_pc = "serving"
    /\ response' = [endpoint |-> "/api/health", code |-> 200,
                    body |-> health_check(HAS_ADVANCED_ANALYSIS, advanced_models)]
    /\ request' = NoRequest
    /\ UNCHANGED <<apiEnv, api_pc, apiGlobals, answered>>
    /\ UNCHANGED <<dlVars, ioVars, ppVars, anVars, dashVars>>

\* the bodies of a POST /api/advanced-anomaly: not JSON, or an object with or
\* without a 'model' key
AnomalyRequests ==
    {[json |-> FALSE, has_model |-> FALSE, model |-> << >>]}
        \cup {[json |-> TRUE, has_model |-> FALSE, model |-> << >>]}
        \cup {[json |-> TRUE, has_model |-> TRUE, model |-> n] : n \in SavedModelNames}

\* advanced_anomaly_detection without the availability check of lines 228-229
advanced_anomaly_detection_bad(has, models, req, raises, prediction) ==
    IF ~req.json
      THEN [endpoint |-> "/api/advanced-anomaly", code |-> 400,
            body |-> [error |-> "exception"]]
      ELSE LET model_name == IF req.has_model THEN req.model
                                               ELSE MethodSuffix(IsolationForest)
           IN  IF model_name \notin models
                 THEN [endpoint |-> "/api/advanced-anomaly", code |-> 400,
                       body |-> [error |-> "Model not available"]]
                 ELSE IF raises
                   THEN [endpoint |-> "/api/advanced-anomaly", code |-> 400,
                         body |-> [error |-> "exception"]]
                   ELSE [endpoint |-> "/api/advanced-anomaly", code |-> 200,
                         body |-> [is_anomaly |-> prediction = -1,
                                   model |-> model_name,
                                   recommendation |->
                                       IF prediction = -1 THEN "Maintenance required"
                                                          ELSE "Normal operation"]]

\* POST /api/advanced-anomaly; the model's predict either raises or labels
\* the point
advanced_anomaly_detection(has, models, req, raises, prediction) ==
    IF ~has
      THEN [endpoint |-> "/api/advanced-anomaly", code |-> 503,
            body |-> [error |-> "Advanced analysis not available"]]
      ELSE IF ~req.json
        THEN [endpoint |-> "/api/advanced-anomaly", code |-> 400,
              body |-> [error |-> "exception"]]
        ELSE LET model_name == IF req.has_model THEN req.model
                                                 ELSE MethodSuffix(IsolationForest)
             IN  IF model_name \notin models
                   THEN [endpoint |-> "/api/advanced-anomaly", code |-> 400,
                         body |-> [error |-> "Model not available"]]
                   ELSE IF raises
                     THEN [endpoint |-> "/api/advanced-anomaly", code |-> 400,
                           body |-> [error |-> "exception"]]
                     ELSE [endpoint |-> "/api/advanced-anomaly", code |-> 200,
                           body |-> [is_anomaly |-> prediction = -1,
                                     model |-> model_name,
                                     recommendation |->
                                         IF prediction = -1 THEN "Maintenance required"
                                                            ELSE "Normal operation"]]

ApiAdvancedAnomaly ==
    /\ api_pc = "serving"
    /\ \E req \in AnomalyRequests, raises \in BOOLEAN, prediction \in {-1, 1} :
          /\ request' = req
          /\ response' = advanced_anomaly_detection(HAS_ADVANCED_ANALYSIS, advanced_models,
                                                    req, raises, prediction)
    /\ UNCHANGED <<apiEnv, api_pc, apiGlobals, answered>>
    /\ UNCHANGED <<dlVars, ioVars, ppVars, anVars, dashVars>>

\* JSON values of a field of a POST /api/predict body: a number, a string
\* that spells a number, any other string
Num(v) == [type |-> "number", val |-> v]
NumStr(v) == [type |-> "numeric_string", val |-> v]
Junk == [type |-> "string", val |-> 0]

FieldValues(name) ==
    CASE name = "temperature" -> {Num(55), Num(60), NumStr(60), Junk}
      [] name = "pressure"    -> {Num(110), Num(120)}
      [] name = "speed"       -> {Num(60), Junk}
      [] name = "vibration"   -> {Num(30)}

FeatureSet == {FeatureNames[i] : i \in DOMAIN FeatureNames}

\* the bodies of a POST /api/predict: none, JSON that is not an object, or an
\* object with any of the four fields
PredictRequests ==
    {[kind |-> k, fields |-> [n \in {} |-> Junk]] : k \in {"none", "nonobject"}}
        \cup {[kind |-> "object", fields |-> f] :
                 f \in UNION {{g \in [F -> UNION {FieldValues(n) : n \in FeatureSet}] :
                                   \A n \in F : g[n] \in FieldValues(n)} :
                              F \in SUBSET FeatureSet}}

\* lines 139-144: input_data.get(name, default) for the four features
SampleOf(fields) ==
    [i \in DOMAIN FeatureNames |->
        IF FeatureNames[i] \in DOMAIN fields THEN fields[FeatureNames[i]]
                                              ELSE Num(NormalValues[i])]

\* lines 161-162 with the absolute deviations in place of the relative ones
ArgMaxDeviation_bad(x) ==
    LET Abs(v) == IF v < 0 THEN -v ELSE v
        dev(i) == Abs(x[i] - NormalValues[i])
    IN  CHOOSE i \in DOMAIN x :
            /\ \A j \in DOMAIN x : dev(j) <= dev(i)
            /\ \A j \in DOMAIN x : j < i => dev(j) < dev(i)

\* lines 161-162: np.argmax of abs(x[i] - normal[i]) / normal[i], the first
\* index of the largest; a / b > c / d is compared as a * d > c * b
ArgMaxDeviation(x) ==
    LET Abs(v) == IF v < 0 THEN -v ELSE v
        Less(i, j) == Abs(x[i] - NormalValues[i]) * NormalValues[j]
                          < Abs(x[j] - NormalValues[j]) * NormalValues[i]
    IN  CHOOSE i \in DOMAIN x :
            /\ \A j \in DOMAIN x : ~Less(i, j)
            /\ \A j \in DOMAIN x : j < i => Less(j, i)

\* lines 166-173
Recommendation(feature) ==
    CASE feature = "temperature" -> "Check cooling system"
      [] feature = "pressure"    -> "Inspect pressure valves"
      [] feature = "speed"       -> "Verify motor operation"
      [] feature = "vibration"   -> "Check for loose components"

\* lines 177-178 left out: the exception reaches Flask, which answers 500
PredictError_bad ==
    [endpoint |-> "/api/predict", code |-> 500, body |-> [error |-> "exception"]]

\* lines 177-178: except Exception -> {'error': ...}, 400
PredictError ==
    [endpoint |-> "/api/predict", code |-> 400, body |-> [error |-> "exception"]]

\* POST /api/predict (lines 136-178). `score` is the model's decision_function
\* of the sample. np.array of the values is an array of strings as soon as one
\* value is a string; the model's input validation raises on a string that
\* spells no number and, depending on the scikit-learn version (`converts`),
\* raises on or converts the ones that do; subtracting from a string raises.
predict_anomaly(req, score, converts) ==
    IF req.kind # "object" THEN PredictError
    ELSE
      LET sample == SampleOf(req.fields)
          strings == {i \in DOMAIN sample : sample[i].type # "number"}
          is_anomaly == Predict(score) = -1
      IN  IF \E i \in strings : sample[i].type = "string" THEN PredictError
          ELSE IF strings # {} /\ ~converts THEN PredictError
          ELSE IF ~is_anomaly
            THEN [endpoint |-> "/api/predict", code |-> 200,
                  body |-> [is_anomaly |-> FALSE, anomaly_score |-> score,
                            recommendation |-> "Normal operation"]]
          ELSE IF strings # {} THEN PredictError
          ELSE LET cause == FeatureNames[ArgMaxDeviation([i \in DOMAIN sample |-> sample[i].val])]
               IN  [endpoint |-> "/api/predict", code |-> 200,
                    body |-> [is_anomaly |-> TRUE, anomaly_score |-> score,
                              recommendation |-> Recommendation(cause),
                              probable_cause |-> <<"Abnormal", cause>>]]

\* a POST /api/predict with one of the bodies `reqs`
PredictStep(reqs) ==
    /\ api_pc = "serving"
    /\ \E req \in reqs, score \in {-1, 0, 1}, converts \in BOOLEAN :
          /\ request' = req
          /\ response' = predict_anomaly(req, score, converts)
    /\ UNCHANGED <<apiEnv, api_pc, apiGlobals, answered>>
    /\ UNCHANGED <<dlVars, ioVars, ppVars, anVars, dashVars>>

ApiPredict == PredictStep(PredictRequests)

\* the same with the bodies that have at most the temperature field
ApiPredictTemperature ==
    PredictStep({r \in PredictRequests : DOMAIN r.fields \subseteq {"temperature"}})

\* a GET endpoint over the stored readings keeps the first response it gave
Answered(resp) ==
    IF answered[resp.endpoint].endpoint = "none"
      THEN [answered EXCEPT ![resp.endpoint] = resp]
      ELSE answered

RECURSIVE SumField(_, _)
SumField(rows, field) ==
    IF rows = << >> THEN 0 ELSE Head(rows)[field] + SumField(Tail(rows), field)

\* Series.mean(), kept as the fraction <<sum, count>>
Mean(rows, field) == <<SumField(rows, field), Len(rows)>>

\* GET /api/summary (lines 107-117); anomaly_percentage is kept as the
\* fraction <<100 * anomalies, readings>>
get_summary(d, an) ==
    [endpoint |-> "/api/summary", code |-> 200,
     body |-> [total_readings |-> Len(d),
               anomalies_detected |-> Len(an),
               anomaly_percentage |-> <<Len(an) * 100, Len(d)>>,
               avg_temperature |-> Mean(d, "temperature"),
               avg_pressure |-> Mean(d, "pressure"),
               avg_speed |-> Mean(d, "speed"),
               avg_vibration |-> Mean(d, "vibration")]]

ApiSummary ==
    /\ api_pc = "serving"
    /\ response' = get_summary(api_data, anomalies)
    /\ request' = NoRequest
    /\ answered' = Answered(response')
    /\ UNCHANGED <<apiEnv, api_pc, apiGlobals>>
    /\ UNCHANGED <<dlVars, ioVars, ppVars, anVars, dashVars>>

\* DataFrame.sort_values('anomaly_score'): ascending; rows of equal score are
\* kept in their order
sort_values(rows) ==
    LET Before(i, j) == \/ rows[i].anomaly_score < rows[j].anomaly_score
                        \/ rows[i].anomaly_score = rows[j].anomaly_score /\ i < j
        Rank(i) == 1 + Cardinality({j \in DOMAIN rows : Before(j, i)})
    IN  [k \in DOMAIN rows |-> rows[CHOOSE i \in DOMAIN rows : Rank(i) = k]]

\* DataFrame.head(n) with the rows in reverse order
head_bad(rows, n) ==
    [k \in 1..(IF Len(rows) < n THEN Len(rows) ELSE n) |-> rows[Len(rows) + 1 - k]]

\* DataFrame.head(n), DataFrame.tail(n)
head(rows, n) == SubSeq(rows, 1, IF Len(rows) < n THEN Len(rows) ELSE n)
tail(rows, n) == SubSeq(rows, IF Len(rows) < n THEN 1 ELSE Len(rows) - n + 1, Len(rows))

\* GET /api/anomalies (lines 119-134)
get_anomalies(an) ==
    LET result == head(sort_values(an), AnomalyLimit)
    IN  [endpoint |-> "/api/anomalies", code |-> 200,
         body |-> [anomalies |->
            [k \in DOMAIN result |->
                [temperature |-> result[k].temperature, pressure |-> result[k].pressure,
                 speed |-> result[k].speed, vibration |-> result[k].vibration,
                 timestamp |-> result[k].timestamp,
                 anomaly_score |-> result[k].anomaly_score]]]]

ApiAnomalies ==
    /\ api_pc = "serving"
    /\ response' = get_anomalies(anomalies)
    /\ request' = NoRequest
    /\ answered' = Answered(response')
    /\ UNCHANGED <<apiEnv, api_pc, apiGlobals>>
    /\ UNCHANGED <<dlVars, ioVars, ppVars, anVars, dashVars>>

\* GET /api/latest-data (lines 180-197)
get_latest_data(d) ==
    [endpoint |-> "/api/latest-data", code |-> 200,
     body |-> [data |-> tail(d, LatestLimit)]]

ApiLatestData ==
    /\ api_pc = "serving"
    /\ response' = get_latest_data(api_data)
    /\ request' = NoRequest
    /\ answered' = Answered(response')
    /\ UNCHANGED <<apiEnv, api_pc, apiGlobals>>
    /\ UNCHANGED <<dlVars, ioVars, ppVars, anVars, dashVars>>

\* the standard deviations of generate_reading's draws (lines 205-213)
NormalSpread == <<5, 10, 8, 3>>
InsertedSpread == <<8, 15, 10, 6>>

\* GET /api/generate-reading (lines 199-222): a draw k deviations off the
\* mean of every feature; the timestamp is the time of the request
generate_reading(is_anomaly, k) ==
    LET mean == IF is_anomaly THEN InsertedValues ELSE NormalValues
        spread == IF is_anomaly THEN InsertedSpread ELSE NormalSpread
    IN  [endpoint |-> "/api/generate-reading", code |-> 200,
         body |-> [temperature |-> mean[1] + k * spread[1],
                   pressure |-> mean[2] + k * spread[2],
                   speed |-> mean[3] + k * spread[3],
                   vibration |-> mean[4] + k * spread[4],
                   timestamp |-> "now"]]

\* generate_reading that also stores the reading it returns
ApiGenerateReading_bad ==
    /\ api_pc = "serving"
    /\ \E is_anomaly \in BOOLEAN, k \in {-1, 0, 1} :
          /\ response' = generate_reading(is_anomaly, k)
          /\ api_data' = Append(api_data,
                [temperature |-> response'.body.temperature,
                 pressure |-> response'.body.pressure,
                 speed |-> response'.body.speed,
                 vibration |-> response'.body.vibration,
                 timestamp |-> Len(api_data) + 1,
                 anomaly |-> 1, anomaly_score |-> 0])
    /\ request' = NoRequest
    /\ UNCHANGED <<apiEnv, api_pc, HAS_ADVANCED_ANALYSIS, advanced_models,
                   anomalies, model, answered>>
    /\ UNCHANGED <<dlVars, ioVars, ppVars, anVars, dashVars>>

ApiGenerateReading ==
    /\ api_pc = "serving"
    /\ \E is_anomaly \in BOOLEAN, k \in {-1, 0, 1} :
          response' = generate_reading(is_anomaly, k)
    /\ request' = NoRequest
    /\ UNCHANGED <<apiEnv, api_pc, apiGlobals, answered>>
    /\ UNCHANGED <<dlVars, ioVars, ppVars, anVars, dashVars>>

\* str.title(): a letter is upper case after a character that is no letter
\* and lower case after a letter
IsLetter(c) == \E k \in 1..Len(UpperCase) : c = UpperCase[k] \/ c = LowerCase[k]
Upper(s) == [i \in DOMAIN s |->
               IF \E k \in 1..Len(LowerCase) : LowerCase[k] = s[i]
                 THEN UpperCase[CHOOSE k \in 1..Len(LowerCase) : LowerCase[k] = s[i]]
                 ELSE s[i]]
Title(s) == [i \in DOMAIN s |->
               IF i > 1 /\ IsLetter(s[i - 1]) THEN Lower(s)[i] ELSE Upper(s)[i]]

\* GET /api/available-models (lines 266-289); the conditional expression of
\* lines 282-283 binds looser than the +, so isolation_forest gets no features
available_models(has, models) ==
    [endpoint |-> "/api/available-models", code |-> 200,
     body |-> [basic |-> [features |-> FeatureNames],
               advanced |->
                   [n \in (IF has THEN models ELSE {}) |->
                       [name |-> Title(Replace(n, "_", " ")),
                        features |-> IF n # MethodSuffix(IsolationForest)
                                       THEN Append(FeatureNames, "production_features")
                                       ELSE << >>]],
               default_model |-> "basic"]]

ApiAvailableModels ==
    /\ api_pc = "serving"
    /\ response' = available_models(HAS_ADVANCED_ANALYSIS, advanced_models)
    /\ request' = NoRequest
    /\ UNCHANGED <<apiEnv, api_pc, apiGlobals, answered>>
    /\ UNCHANGED <<dlVars, ioVars, ppVars, anVars, dashVars>>

\* GET /api/analysis-results (lines 291-332): `dir_exists` and `found` say
\* whether analysis/results and the requested results file exist, `raises`
\* whether reading them fails
get_analysis_results(has, dir_exists, found, raises) ==
    IF ~has \/ ~dir_exists
      THEN [endpoint |-> "/api/analysis-results", code |-> 404,
            body |-> [error |-> "Analysis results not available"]]
    ELSE IF ~found
      THEN [endpoint |-> "/api/analysis-results", code |-> 404,
            body |-> [error |-> "Results not found"]]
    ELSE IF raises
      THEN [endpoint |-> "/api/analysis-results", code |-> 500,
            body |-> [error |-> "exception"]]
    ELSE [endpoint |-> "/api/analysis-results", code |-> 200,
          body |-> [results |-> "rows"]]

\* GET /api/analysis-plots (lines 334-358)
get_analysis_plots(has, dir_exists, found, raises) ==
    IF ~has \/ ~dir_exists
      THEN [endpoint |-> "/api/analysis-plots", code |-> 404,
            body |-> [error |-> "Analysis plots not available"]]
    ELSE IF ~found
      THEN [endpoint |-> "/api/analysis-plots", code |-> 404,
            body |-> [error |-> "Plots directory not found"]]
    ELSE IF raises
      THEN [endpoint |-> "/api/analysis-plots", code |-> 500,
            body |-> [error |-> "exception"]]
    ELSE [endpoint |-> "/api/analysis-plots", code |-> 200,
          body |-> [plots |-> "list"]]

\* GET /api/plot/<plot_name> (lines 360-381)
serve_plot(has, found) ==
    IF ~has
      THEN [endpoint |-> "/api/plot", code |-> 404,
            body |-> [error |-> "Analysis plots not available"]]
    ELSE IF ~found
      THEN [endpoint |-> "/api/plot", code |-> 404,
            body |-> [error |-> "Plot not found"]]
    ELSE [endpoint |-> "/api/plot", code |-> 200, body |-> [file |-> "image"]]

\* the three endpoints over analysis/results; they read files and nothing else
ApiAnalysisFiles ==
    /\ api_pc = "serving"
    /\ \E dir_exists \in BOOLEAN, found \in BOOLEAN, raises \in BOOLEAN :
          response' \in {get_analysis_results(HAS_ADVANCED_ANALYSIS, dir_exists, found, raises),
                         get_analysis_plots(HAS_ADVANCED_ANALYSIS, dir_exists, found, raises),
                         serve_plot(HAS_ADVANCED_ANALYSIS, found)}
    /\ request' = NoRequest
    /\ UNCHANGED <<apiEnv, api_pc, apiGlobals, answered>>
    /\ UNCHANGED <<dlVars, ioVars, ppVars, anVars, dashVars>>

\* the AnalysisAPI started in any installation
InitApi ==
    /\ raw = [f \in ExpectedFiles |-> "real"]
    /\ DlIdle
    /\ DashOff
    /\ reads = {} /\ writes = {}
    /\ PpIdle
    /\ processed = [f \in ProcessedFiles |-> NoFrame]
    /\ AnIdle
    /\ analysis_src_exists \in BOOLEAN /\ deps_importable \in BOOLEAN
    /\ models_dir \in ModelsDirs
    /\ ApiNotLoaded

NextApi ==
    \/ ApiStartup
    \/ ApiHealth
    \/ ApiAdvancedAnomaly

\* the AnalysisAPI started in an installation with saved models, serving
\* requests to all of its endpoints
InitServe ==
    /\ InitApi
    /\ analysis_src_exists /\ deps_importable
    /\ models_dir = [exists |-> TRUE, names |-> SavedModelNames]

\* the AnalysisAPI of that installation after its module has been loaded,
\* serving POST /api/predict
InitPredict ==
    /\ raw = [f \in ExpectedFiles |-> "real"]
    /\ DlIdle
    /\ DashOff
    /\ reads = {} /\ writes = {}
    /\ PpIdle
    /\ processed = [f \in ProcessedFiles |-> NoFrame]
    /\ AnIdle
    /\ analysis_src_exists = TRUE /\ deps_importable = TRUE
    /\ models_dir = [exists |-> TRUE, names |-> SavedModelNames]
    /\ api_pc = "serving"
    /\ HAS_ADVANCED_ANALYSIS = ImportAdvancedAnalysis(TRUE, TRUE)
    /\ advanced_models = {}
    /\ \E a \in ScoreSteps :
          api_data = StartupData(AnomalyLimit - 2, a, MaxOffset)
    /\ anomalies = SelectSeq(api_data, IsAnomaly)
    /\ model = FittedModel(AnomalyLimit - 2)
    /\ response = NoResponse /\ request = NoRequest
    /\ answered = [e \in StoredEndpoints |-> NoResponse]

NextPredict == ApiPredict

NextServe ==
    \/ ApiStartup
    \/ ApiHealth
    \/ ApiAdvancedAnomaly
    \/ ApiPredictTemperature
    \/ ApiSummary
    \/ ApiAnomalies
    \/ ApiLatestData
    \/ ApiGenerateReading
    \/ ApiAvailableModels
    \/ ApiAnalysisFiles

(***************************************************************************)
(* analysis/src/web/app.py: the dashboard. Its ROOT_DIR is that of         *)
(* models/anomaly.py, so both use the same results directory.              *)
(***************************************************************************)
\* load_data_and_results, lines 89-90
DashResultsFile(method) == <<"results", "anomaly_results_", method, ".csv">>
DashMetricsFile(method) == <<"results", "anomaly_metrics_", method, ".json">>

\* evaluate_anomaly_detection, lines 242-248: the keys of a metrics file
\* (save_results writes one only for a non-empty evaluation)
MetricsKeys == {"confusion_matrix", "report", "precision", "recall", "f1"}

\* load_data_and_results (lines 69-109) over the files `files` of the results
\* directory: an entry for each method key whose results file exists, with
\* the metrics of its metrics file if that exists too
load_data_and_results(files, tables) ==
    [m \in {k \in DashboardMethods : DashResultsFile(k) \in files} |->
        [rows |-> tables[m].rows,
         flagged |-> tables[m].flagged,
         metrics |-> IF DashMetricsFile(m) \in files
                       THEN [loaded |-> TRUE, keys |-> MetricsKeys]
                       ELSE NoMetrics]]

\* main (lines 177-183), started while anomaly.main is not running; the
\* templates and static files it creates are left out
DashStart ==
    /\ dash_pc = "init"
    /\ an_pc \in {"idle", "done", "raised", "exit1"}
    /\ dash_data' = load_data_and_results(writes, results_tables)
    /\ dash_pc' = "loaded"
    /\ reads' = reads
          \cup (IF processed["train_processed.pkl"].state # "absent"
                  THEN {<<"processed", "train_processed.pkl">>} ELSE {})
          \cup {f \in writes : \E m \in DashboardMethods :
                                  f \in {DashResultsFile(m), DashMetricsFile(m)}}
    /\ UNCHANGED <<results_tables, dash_response, writes>>
    /\ UNCHANGED <<dlVars, ppVars, anVars, apiVars>>

\* round(x, 2) of x = 100 * count / total without the rounding up
Round2_bad(count, total) == (10000 * count) \div total

\* round(100 * count / total, 2) in hundredths: the nearest one, the even one
\* of two equally near
Round2(count, total) ==
    LET q == (10000 * count) \div total
        r == (10000 * count) % total
    IN  IF 2 * r < total THEN q
        ELSE IF 2 * r > total THEN q + 1
        ELSE IF q % 2 = 0 THEN q ELSE q + 1

\* metrics.get(key, 'N/A')
MetricsGet(metrics, key) == IF key \in metrics.keys THEN "value" ELSE "N/A"

\* GET /api/anomaly-summary (lines 127-161); `if metrics:` holds for a
\* loaded, non-empty dict
anomaly_summary(loaded) ==
    [endpoint |-> "/api/anomaly-summary", code |-> 200,
     body |->
        [m \in DOMAIN loaded |->
            IF loaded[m].metrics.loaded /\ loaded[m].metrics.keys # {}
              THEN [method |-> Title(Replace(m, "_", " ")),
                    anomaly_count |-> loaded[m].flagged,
                    total_samples |-> loaded[m].rows,
                    anomaly_percentage |-> Round2(loaded[m].flagged, loaded[m].rows),
                    precision |-> MetricsGet(loaded[m].metrics, "precision"),
                    recall |-> MetricsGet(loaded[m].metrics, "recall"),
                    f1 |-> MetricsGet(loaded[m].metrics, "f1")]
              ELSE [method |-> Title(Replace(m, "_", " ")),
                    anomaly_count |-> loaded[m].flagged,
                    total_samples |-> loaded[m].rows,
                    anomaly_percentage |-> Round2(loaded[m].flagged, loaded[m].rows)]]]

DashAnomalySummary ==
    /\ dash_pc = "loaded"
    /\ dash_response' = anomaly_summary(dash_data)
    /\ UNCHANGED <<results_tables, dash_pc, dash_data>>
    /\ UNCHANGED <<dlVars, ioVars, ppVars, anVars, apiVars>>

\* The results directories an earlier anomaly.main may have left: the results
\* files of the first techniques it ran, with metrics files for none of them,
\* for all of them or for the first only.
MaxResultRows == 3
RunOrder == <<IsolationForest, LocalOutlierFactor, OneClassSVM, EllipticEnvelope>>
ResultsDirs ==
    UNION {{{ResultsFile(RunOrder[i]) : i \in 1..n} \cup {MetricsFile(RunOrder[i]) : i \in M} :
               M \in {{}, 1..n, 1..(IF n = 0 THEN 0 ELSE 1)}} :
           n \in 0..Len(RunOrder)}

\* the dashboard started over such a results directory, each results file
\* with 1..MaxResultRows rows of which any number is flagged
InitDashboard ==
    /\ raw = [f \in ExpectedFiles |-> "real"]
    /\ DlIdle
    /\ reads = {}
    /\ writes \in ResultsDirs
    /\ PpIdle
    /\ processed = [f \in ProcessedFiles |-> NoFrame]
    /\ AnIdle
    /\ ApiOff
    /\ DashNotLoaded
    /\ \E n \in 1..MaxResultRows :
          results_tables \in [DashboardMethods -> {[rows |-> n, flagged |-> k] : k \in {0, n - 1, n}}]

NextDashboard ==
    \/ DashStart
    \/ DashAnomalySummary

\* anomaly.main, and the dashboard started when it is not running
NextPublish ==
    \/ AnLoad
    \/ AnIsolationForest
    \/ AnLocalOutlierFactor
    \/ AnOneClassSVM
    \/ AnEllipticEnvelope
    \/ DashStart
    \/ DashAnomalySummary

(***************************************************************************)
(* The data pipeline: download.main, if it is run at all, then             *)
(* preprocess.main, from any content of data/raw.                          *)
(***************************************************************************)
Init ==
    /\ raw \in [ExpectedFiles -> FileStates]
    /\ DlIdle
    /\ DashOff
    /\ reads = {} /\ writes = {}
    /\ PpIdle
    /\ processed = [f \in ProcessedFiles |-> NoFrame]
    /\ AnIdle
    /\ ApiOff

Next ==
    \/ DlMain
    \/ DlKaggleApi
    \/ DlExtract
    \/ DlSimulate
    \/ DlExit
    \/ PpLoad
    \/ PpAnalyze
    \/ PpImpute
    \/ PpMerge
    \/ PpSelect
    \/ PpSave

vars == <<dlVars, ioVars, ppVars, anVars, apiVars, dashVars>>

Spec == Init /\ [][Next]_vars

(***************************************************************************)
(* Claims about download.main                                              *)
(***************************************************************************)

\* C1: whenever download.main returns, it returns True and all seven expected
\* files exist in data/raw, whichever path it took (files already there, Kaggle
\* download succeeded, failed, or reported success with files missing).
C1_ReturnsTrueWithAllFiles ==
    dl_pc = "returned" =>
        /\ dl_ret = "True"
        /\ \A f \in ExpectedFiles : raw[f] \in {"real", "placeholder"}

\* the Kaggle download reported success, files were still missing, and main
\* returned after filling the rest with placeholders
C1_Witness ==
    /\ dl_pc = "returned"
    /\ api_ok = "True"
    /\ \E f \in ExpectedFiles : raw[f] = "placeholder"
    /\ \E f \in ExpectedFiles : raw[f] = "real"

\* C2: when all seven files exist as download.main starts, it returns True at
\* once: no Kaggle download is attempted, nothing is prompted for, and no file
\* of data/raw is created or modified.
C2_ExistingDatasetUntouched ==
    [][(dl_pc = "idle" /\ dl_pc' # "idle" /\ \A f \in ExpectedFiles : raw[f] # "absent")
         => (/\ dl_pc' = "returned"
             /\ dl_ret' = "True"
             /\ ~kaggleAttempted'
             /\ ~prompted'
             /\ raw' = raw)]_vars

\* main has returned without the Kaggle API having been called
C2_Witness == dl_pc = "returned" /\ dl_ret = "True" /\ ~kaggleAttempted /\ api_ok = "none"

(***************************************************************************)
(* Claims about preprocess.main                                            *)
(***************************************************************************)
Called(step) == \E i \in 1..Len(calls) : calls[i] = step
LoadReturned == Called("load_data") /\ pp_pc # "exit1"

\* C3: load_data never parses a placeholder file as CSV: after a download run
\* that left a placeholder among train_numeric.csv, train_categorical.csv and
\* train_date.csv, load_data returns the synthetic data.
C3_PlaceholderNeverParsed ==
    (/\ dl_pc = "exited"
     /\ LoadReturned
     /\ \E f \in RequiredFiles : raw[f] = "placeholder")
    => source = "synthetic"

\* C4: when one of the three required files is missing, load_data exits with
\* status 1 before it reads any file, generates synthetic data, or writes any
\* interim or processed file.
C4_MissingFileExitsFirst ==
    (Called("load_data") /\ \E f \in RequiredFiles : raw[f] = "absent")
    => (/\ pp_pc = "exit1"
        /\ reads = {}
        /\ writes = {}
        /\ source = "none"
        /\ calls = <<"load_data">>)

\* load_data has exited although train_numeric.csv is a real dataset file
C4_Witness ==
    /\ pp_pc = "exit1"
    /\ raw["train_numeric.csv"] = "real"
    /\ raw["train_date.csv"] = "absent"

StepsWithSelection ==
    <<"load_data", "analyze_missing_values", "handle_missing_values",
      "merge_datasets", "feature_selection", "save_processed_data">>
StepsWithoutSelection ==
    <<"load_data", "analyze_missing_values", "handle_missing_values",
      "merge_datasets", "save_processed_data">>
IsPrefix(s, t) == Len(s) <= Len(t) /\ \A i \in 1..Len(s) : s[i] = t[i]
ProcessedWritten == \E w \in writes : w[1] = "processed"

\* C6 as stated: preprocess.main runs load, analyze, impute, merge, feature
\* selection and save exactly once each in that order; a processed file is
\* written only after load, imputation and merge; none is written when an
\* earlier step exits or raises.
C6_Original ==
    /\ IsPrefix(calls, StepsWithSelection)
    /\ pp_pc = "done" => calls = StepsWithSelection
    /\ ProcessedWritten =>
          Called("load_data") /\ Called("handle_missing_values") /\ Called("merge_datasets")
    /\ pp_pc \in {"exit1", "raised"} => ~ProcessedWritten

\* C6 amended: load, analyze, impute and merge run once each in that order;
\* feature selection then runs once exactly when the merged table has a Response
\* column and is skipped otherwise; save runs last.  The rest as stated.
C6_StepsInOrder ==
    /\ IsPrefix(calls, StepsWithSelection) \/ IsPrefix(calls, StepsWithoutSelection)
    /\ pp_pc = "done" =>
          calls = IF "Response" \in Columns(merged_df)
                    THEN StepsWithSelection ELSE StepsWithoutSelection
    /\ ProcessedWritten =>
          /\ IsPrefix(<<"load_data", "analyze_missing_values", "handle_missing_values",
                         "merge_datasets">>, calls)
          /\ pp_pc = "done"
    /\ pp_pc \in {"exit1", "raised"} => ~ProcessedWritten

\* main has completed for a table without Response, feature selection skipped
C6_Witness ==
    /\ pp_pc = "done"
    /\ ~Called("feature_selection")
    /\ ProcessedPath("test_processed.pkl") \in writes

(***************************************************************************)
(* handle_missing_values on its own: main is about to call it on any       *)
(* bounded numeric and categorical table of real dataset files.            *)
(***************************************************************************)
InitImpute ==
    /\ raw = [f \in ExpectedFiles |-> "real"]
    /\ DlIdle
    /\ DashOff
    /\ ApiOff
    /\ reads = {RawPath(f) : f \in RequiredFiles}
    /\ writes = {InterimPath("missing_values_numeric.csv"),
                 InterimPath("missing_values_categorical.csv"),
                 InterimPath("missing_values_date.csv")}
    /\ pp_pc = "impute" /\ source = "csv"
    /\ \E num \in NumericTables(ImputeRows), cat \in CategoricalTables(ImputeRows) :
          data = [numeric |-> num, categorical |-> cat, date |-> DateTable(ImputeRows)]
    /\ processed_data = NoData /\ merged_df = EmptyTable /\ selected_df = EmptyTable
    /\ calls = <<"load_data", "analyze_missing_values">>
    /\ processed = [f \in ProcessedFiles |-> NoFrame]
    /\ AnIdle

NextImpute == PpImpute

SpecImpute == InitImpute /\ [][NextImpute]_vars

SpecAnomaly == InitAnomaly /\ [][NextAnomaly]_vars
SpecAPI == InitApi /\ [][NextApi]_vars
SpecServe == InitServe /\ [][NextServe]_vars
SpecPredict == InitPredict /\ [][NextPredict]_vars
SpecDashboard == InitDashboard /\ [][NextDashboard]_vars
SpecPublish == InitAnomaly /\ [][NextPublish]_vars

FeatureColumns(df) == Columns(df) \ {"Id", "Response"}
SameColumn(a, b) == DOMAIN a = DOMAIN b /\ \A i \in DOMAIN a : a[i] = b[i]

\* the imputed table out of the input table inp: the same rows and columns, Id
\* and Response unchanged, every missing feature value replaced by the column's
\* statistic and no feature value missing
ImputedFrom(out, inp, missing, strategy) ==
    /\ Columns(out) = Columns(inp)
    /\ \A c \in Columns(inp) \ FeatureColumns(inp) : SameColumn(out[c], inp[c])
    /\ \A c \in FeatureColumns(inp) :
          /\ DOMAIN out[c] = DOMAIN inp[c]
          /\ \A i \in DOMAIN inp[c] :
                /\ out[c][i] # missing
                /\ out[c][i] = IF inp[c][i] = missing THEN Statistic(inp[c], strategy) ELSE inp[c][i]

\* C5: for every input, handle_missing_values returns a numeric and a
\* categorical table with the rows and feature columns of the input and no
\* missing feature value: each missing numeric value replaced by the column's
\* median, each missing categorical value by the column's most frequent value,
\* Id and Response carried over unchanged.
C5_ImputeReturnsCompleteTables ==
    Called("handle_missing_values") =>
        /\ pp_pc # "raised"
        /\ ImputedFrom(processed_data.numeric, data.numeric, NaN, "median")
        /\ ImputedFrom(processed_data.categorical, data.categorical, NaNc, "most_frequent")

(***************************************************************************)
(* Claims about anomaly.main                                               *)
(***************************************************************************)

\* C7 as stated: when anomaly.main completes, a model file
\* anomaly_detection_<method>.pkl has been saved for every technique it applied.
C7_Original ==
    an_pc = "done" => \A m \in applied : ModelFile(m) \in writes

\* C7 amended: when anomaly.main completes it has applied Isolation Forest,
\* Local Outlier Factor and One-Class SVM, and Elliptic Envelope exactly when
\* the data has at most 20 features; save_model was called for each of them
\* except Local Outlier Factor, whose model is never saved, and a model file
\* has been written for each of those whose save did not fail (a failed save
\* is logged and the run goes on).
C7_ModelsSavedExceptLOF ==
    an_pc = "done" =>
        /\ {IsolationForest, LocalOutlierFactor, OneClassSVM} \subseteq applied
        /\ EllipticEnvelope \in applied <=> an_data.features <= MaxEllipticFeatures
        /\ ModelFile(LocalOutlierFactor) \notin writes
        /\ \A m \in applied \ {LocalOutlierFactor} :
              (ModelFile(m) \in writes) <=> (m \notin save_failed)
        /\ save_failed \subseteq applied \ {LocalOutlierFactor}

\* main has completed with all four techniques applied and every save
\* successful: Local Outlier Factor has its results but no model file
C7_Witness ==
    /\ an_pc = "done"
    /\ EllipticEnvelope \in applied
    /\ save_failed = {}
    /\ LocalOutlierFactor \in applied
    /\ ResultsFile(LocalOutlierFactor) \in writes
    /\ ModelFile(LocalOutlierFactor) \notin writes
    /\ ModelFile(OneClassSVM) = <<"models", "anomaly_detection_",
          <<"o", "n", "e", "-", "c", "l", "a", "s", "s", "_", "s", "v", "m">>, ".pkl">>
    /\ ModelFile(OneClassSVM) \in writes

\* C8: load_processed_data returns the pickle's data when the pickle exists and
\* loads; otherwise the CSV's data when the CSV exists and loads; in every
\* remaining case it exits with status 1 and returns nothing.
C8_PickleThenCsvThenExit ==
    an_pc # "idle" =>
        LET pkl == processed["train_processed.pkl"]
            csv == processed["train_processed.csv"]
        IN  IF pkl.state = "ok"
              THEN an_pc # "exit1" /\ an_src = "pkl" /\ an_data = pkl
            ELSE IF csv.state = "ok"
              THEN an_pc # "exit1" /\ an_src = "csv" /\ an_data = csv
            ELSE an_pc = "exit1" /\ an_src = "none" /\ an_data = NoFrame

\* the pickle exists but does not load, and the CSV's data was returned
C8_Witness ==
    /\ processed["train_processed.pkl"].state = "corrupt"
    /\ an_src = "csv"
    /\ an_data = processed["train_processed.csv"]
    /\ an_pc \notin {"idle", "exit1"}

(***************************************************************************)
(* The AnalysisAPI                                                         *)
(***************************************************************************)
\* C9: with the analysis source directory present and its packages installed,
\* models.anomaly binds load_model and predict_anomaly, so loading the
\* AnalysisAPI module leaves HAS_ADVANCED_ANALYSIS true.
C9_AdvancedImportSucceeds ==
    (api_pc = "serving" /\ analysis_src_exists /\ deps_importable) =>
        /\ {"load_model", "predict_anomaly"} \subseteq AnomalyModuleNames
        /\ HAS_ADVANCED_ANALYSIS

\* C10: every answer of /api/health has status "ok" and the current value of
\* HAS_ADVANCED_ANALYSIS; its advanced_models is empty when the flag is false
\* and is otherwise the set of model names loaded at startup.
C10_HealthReportsFlagAndModels ==
    response.endpoint = "/api/health" =>
        /\ response.code = 200
        /\ response.body.status = "ok"
        /\ response.body.advanced_analysis_available = HAS_ADVANCED_ANALYSIS
        /\ ~HAS_ADVANCED_ANALYSIS => response.body.advanced_models = {}
        /\ HAS_ADVANCED_ANALYSIS => response.body.advanced_models = advanced_models

\* /api/health has answered in an installation that has saved model files but
\* no advanced analysis
C10_Witness ==
    /\ response.endpoint = "/api/health"
    /\ models_dir.names # {}
    /\ ~HAS_ADVANCED_ANALYSIS
    /\ response.body.advanced_models = {}

\* C11: POST /api/advanced-anomaly answers 503 with an error whenever advanced
\* analysis is unavailable; when it is available it answers 400 if the
\* requested model name (default isolation_forest) is not a loaded model; a
\* prediction is returned only otherwise, and its 'model' field is the
\* requested name; the only status codes are 200, 400 and 503.
C11_AdvancedAnomalyOutcomes ==
    response.endpoint = "/api/advanced-anomaly" =>
        LET name == IF request.has_model
                      THEN request.model
                      ELSE <<"i", "s", "o", "l", "a", "t", "i", "o", "n", "_",
                             "f", "o", "r", "e", "s", "t">>
        IN  /\ ~HAS_ADVANCED_ANALYSIS =>
                  response.code = 503 /\ "error" \in DOMAIN response.body
            /\ (HAS_ADVANCED_ANALYSIS /\ (~request.json \/ name \notin advanced_models)) =>
                  response.code = 400
            /\ response.code = 200 =>
                  /\ HAS_ADVANCED_ANALYSIS /\ request.json /\ name \in advanced_models
                  /\ response.body.model = name
            /\ response.code \in {200, 400, 503}

\* a request that names a model whose file is in analysis/models has been
\* answered 503
C11_Witness ==
    /\ response.endpoint = "/api/advanced-anomaly"
    /\ response.code = 503
    /\ request.json /\ request.has_model
    /\ request.model \in models_dir.names

\* the features in the order of the claim, with their normal values and
\* their actions
C12_Features ==
    <<[name |-> "temperature", normal |-> 50,  action |-> "Check cooling system"],
      [name |-> "pressure",    normal |-> 100, action |-> "Inspect pressure valves"],
      [name |-> "speed",       normal |-> 75,  action |-> "Verify motor operation"],
      [name |-> "vibration",   normal |-> 25,  action |-> "Check for loose components"]>>

\* the value the request gives feature i, its normal value when it gives none
Requested(i) ==
    IF C12_Features[i].name \in DOMAIN request.fields
      THEN request.fields[C12_Features[i].name].val
      ELSE C12_Features[i].normal

\* the relative deviation of feature i is smaller than that of feature j
LessDeviation(i, j) ==
    LET Dist(k) == IF Requested(k) < C12_Features[k].normal
                     THEN C12_Features[k].normal - Requested(k)
                     ELSE Requested(k) - C12_Features[k].normal
    IN  Dist(i) * C12_Features[j].normal < Dist(j) * C12_Features[i].normal

\* the first feature of largest relative deviation
LargestDeviation ==
    CHOOSE i \in 1..4 :
        /\ \A j \in 1..4 : ~LessDeviation(i, j)
        /\ \A j \in 1..(i - 1) : LessDeviation(j, i)

\* C12: a successful POST /api/predict response has is_anomaly, anomaly_score
\* and recommendation; recommendation is "Normal operation" exactly when
\* is_anomaly is false; when is_anomaly is true probable_cause names the first
\* feature of largest relative deviation from 50, 100, 75, 25 and
\* recommendation is that feature's action; probable_cause is absent when
\* is_anomaly is false.
C12_PredictResponse ==
    (response.endpoint = "/api/predict" /\ response.code = 200) =>
        LET b == response.body IN
        /\ {"is_anomaly", "anomaly_score", "recommendation"} \subseteq DOMAIN b
        /\ (b.recommendation = "Normal operation") <=> ~b.is_anomaly
        /\ b.is_anomaly =>
              /\ "probable_cause" \in DOMAIN b
              /\ b.probable_cause = <<"Abnormal", C12_Features[LargestDeviation].name>>
              /\ b.recommendation = C12_Features[LargestDeviation].action
        /\ ~b.is_anomaly => "probable_cause" \notin DOMAIN b

\* an anomalous reading whose vibration deviates most relatively and whose
\* pressure deviates most absolutely has been answered
C12_Witness ==
    /\ response.endpoint = "/api/predict" /\ response.code = 200
    /\ response.body.is_anomaly
    /\ DOMAIN request.fields = {"pressure", "vibration"}
    /\ request.fields["pressure"] = Num(110)
    /\ response.body.probable_cause = <<"Abnormal", "vibration">>

\* the answers of POST /api/predict: 200 or 400, a 400 carries 'error', a
\* missing body, a body that is no object and a value that is no number give
\* 400, and an object whose fields are numbers is answered with the missing
\* ones at their defaults
C13_Answers ==
    response.endpoint = "/api/predict" =>
        /\ response.code \in {200, 400}
        /\ response.code = 400 => "error" \in DOMAIN response.body
        /\ request.kind # "object" => response.code = 400
        /\ (\E n \in DOMAIN request.fields : request.fields[n].type = "string") =>
              response.code = 400
        /\ (request.kind = "object"
               /\ \A n \in DOMAIN request.fields : request.fields[n].type = "number") =>
              /\ response.code = 200
              /\ response.body.is_anomaly =>
                    response.body.probable_cause
                        = <<"Abnormal", C12_Features[LargestDeviation].name>>

\* C13: a failure while handling POST /api/predict (missing body, body that
\* is no JSON object, non-numeric values) gives a 400 response with an 'error'
\* field and never an unhandled exception; the request leaves the trained
\* model and the stored data unchanged; the fields missing from a JSON object
\* are replaced by the defaults 50, 100, 75, 25.
C13_PredictFailures ==
    /\ []C13_Answers
    /\ [][response'.endpoint = "/api/predict" =>
             UNCHANGED <<model, api_data, anomalies>>]_vars

\* an object with a value that is no number has been answered 400, with the
\* model and the readings of startup in place
C13_Witness ==
    /\ response.endpoint = "/api/predict" /\ response.code = 400
    /\ request.kind = "object"
    /\ "speed" \in DOMAIN request.fields /\ request.fields["speed"] = Junk
    /\ model = FittedModel(Len(api_data)) /\ Len(api_data) > 0

\* the stored readings the startup model labelled as anomalies
Labelled == {i \in DOMAIN api_data : api_data[i].anomaly = -1}

\* C14: GET /api/anomalies returns at most 10 records, each of them a stored
\* reading labelled -1, in order of non-decreasing anomaly_score; they are 10
\* anomalies of lowest score, or all the anomalies when there are fewer.
C14_TenLowestAnomalies ==
    response.endpoint = "/api/anomalies" =>
        LET recs == response.body.anomalies
            Returned == {i \in Labelled : \E k \in DOMAIN recs :
                            recs[k].timestamp = api_data[i].timestamp}
        IN  /\ Len(recs) <= 10
            /\ Len(recs) = IF Cardinality(Labelled) < 10 THEN Cardinality(Labelled) ELSE 10
            /\ \A k \in DOMAIN recs : \E i \in Labelled :
                  /\ recs[k].timestamp = api_data[i].timestamp
                  /\ recs[k].anomaly_score = api_data[i].anomaly_score
                  /\ recs[k].temperature = api_data[i].temperature
                  /\ recs[k].pressure = api_data[i].pressure
                  /\ recs[k].speed = api_data[i].speed
                  /\ recs[k].vibration = api_data[i].vibration
            /\ \A k \in DOMAIN recs : \A l \in DOMAIN recs :
                  /\ k < l => recs[k].anomaly_score <= recs[l].anomaly_score
                  /\ k # l => recs[k].timestamp # recs[l].timestamp
            /\ \A i \in Labelled \ Returned : \A k \in DOMAIN recs :
                  recs[k].anomaly_score <= api_data[i].anomaly_score

\* /api/anomalies has answered with 10 of more than 10 anomalies, of more
\* than one score
C14_Witness ==
    /\ response.endpoint = "/api/anomalies"
    /\ Cardinality(Labelled) > 10
    /\ Len(response.body.anomalies) = 10
    /\ response.body.anomalies[1].anomaly_score < response.body.anomalies[10].anomaly_score

\* C17: no request handler changes the stored readings, the anomaly subset,
\* the fitted model, the advanced-model table or the availability flag; GET
\* /api/summary, /api/anomalies and /api/latest-data answer every time what
\* they answered the first time; /api/summary reports anomalies_detected <=
\* total_readings; /api/latest-data returns at most 50 readings, the last
\* ones, in time order.
C17_HandlersKeepStartupState ==
    /\ [][api_pc = "serving" => UNCHANGED apiGlobals]_vars
    /\ [](\A e \in StoredEndpoints : response.endpoint = e => response = answered[e])
    /\ [](response.endpoint = "/api/summary" =>
             /\ response.body.anomalies_detected <= response.body.total_readings
             /\ response.body.total_readings = Len(api_data)
             /\ response.body.anomalies_detected = Cardinality(Labelled))
    /\ [](response.endpoint = "/api/latest-data" =>
             LET rows == response.body.data
                 skipped == Len(api_data) - Len(rows)
             IN  /\ Len(rows) <= 50
                 /\ Len(rows) = IF Len(api_data) < 50 THEN Len(api_data) ELSE 50
                 /\ \A k \in DOMAIN rows : rows[k] = api_data[skipped + k]
                 /\ \A k \in DOMAIN rows : \A l \in DOMAIN rows :
                       k < l => rows[k].timestamp < rows[l].timestamp)

\* after /api/summary and /api/anomalies have answered, /api/latest-data has
\* answered with the last 50 of more than 50 readings
C17_Witness ==
    /\ response.endpoint = "/api/latest-data"
    /\ Len(api_data) > 50
    /\ Len(response.body.data) = 50
    /\ \A e \in StoredEndpoints : answered[e].endpoint = e
    /\ anomalies # << >>

(***************************************************************************)
(* The dashboard                                                           *)
(***************************************************************************)
\* C15: GET /api/anomaly-summary has exactly one entry per method whose
\* results file was loaded at startup; its anomaly_count is the number of
\* rows flagged 1, its total_samples the number of rows, anomaly_count <=
\* total_samples, anomaly_percentage is 100 * anomaly_count / total_samples
\* rounded to 2 places (here in hundredths); precision, recall and f1 are in
\* the entry exactly when a metrics file was loaded for the method.
C15_SummaryPerLoadedMethod ==
    dash_response.endpoint = "/api/anomaly-summary" =>
        LET b == dash_response.body
            Dist(x, y) == IF x < y THEN y - x ELSE x - y
        IN  /\ DOMAIN b = {m \in DashboardMethods :
                              <<"results", "anomaly_results_", m, ".csv">> \in writes}
            /\ \A m \in DOMAIN b :
                  /\ b[m].anomaly_count = results_tables[m].flagged
                  /\ b[m].total_samples = results_tables[m].rows
                  /\ b[m].anomaly_count <= b[m].total_samples
                  /\ 2 * Dist(b[m].anomaly_percentage * b[m].total_samples,
                              10000 * b[m].anomaly_count) <= b[m].total_samples
                  /\ IF <<"results", "anomaly_metrics_", m, ".json">> \in writes
                       THEN {"precision", "recall", "f1"} \subseteq DOMAIN b[m]
                       ELSE {"precision", "recall", "f1"} \cap DOMAIN b[m] = {}

\* the summary has an entry with metrics and one without, and a percentage
\* that is rounded up (2 of 3 rows: 66.67)
C15_Witness ==
    /\ dash_response.endpoint = "/api/anomaly-summary"
    /\ \E m \in DOMAIN dash_response.body : "precision" \in DOMAIN dash_response.body[m]
    /\ \E m \in DOMAIN dash_response.body :
          /\ "precision" \notin DOMAIN dash_response.body[m]
          /\ dash_response.body[m].anomaly_count = 2
          /\ dash_response.body[m].total_samples = 3
          /\ dash_response.body[m].anomaly_percentage = 6667

\* the four method names of anomaly.main
MethodNames == {IsolationForest, LocalOutlierFactor, OneClassSVM, EllipticEnvelope}

\* C16: the suffix save_results derives from each of the four method names
\* (lower case, spaces replaced by underscores) is one of the method keys of
\* load_data_and_results, and a dashboard start loads every method whose
\* results file anomaly.main has written, with its metrics if it wrote them.
C16_WrittenResultsAreLoaded ==
    /\ [](\A m \in MethodNames : Replace(Lower(m), " ", "_") \in DashboardMethods)
    /\ [][(dash_pc = "init" /\ dash_pc' = "loaded") =>
             \A m \in MethodNames :
                /\ ResultsFile(m) \in writes =>
                      Replace(Lower(m), " ", "_") \in DOMAIN dash_data'
                /\ (ResultsFile(m) \in writes /\ MetricsFile(m) \in writes) =>
                      dash_data'[Replace(Lower(m), " ", "_")].metrics.loaded]_vars

\* the dashboard has started after a complete run of anomaly.main on labelled
\* data and has loaded the four methods, One-Class SVM with its metrics
C16_Witness ==
    /\ dash_pc = "loaded" /\ an_pc = "done"
    /\ \A m \in MethodNames : ResultsFile(m) \in writes
    /\ Cardinality(DOMAIN dash_data) = 4
    /\ dash_data[<<"o", "n", "e", "-", "c", "l", "a", "s", "s", "_", "s", "v", "m">>].metrics.loaded

====
